---- MODULE Spec2Model ----
(***************************************************************************)
(* RemoteSync real-time collaboration core.                                *)
(*                                                                         *)
(*   SpecDoc : the operation sequencer, backend/app/api/documents.py       *)
(*   SpecWS  : the connection manager, backend/app/websocket/manager.py,   *)
(*             driven by the endpoint of backend/app/main.py               *)
(*   SpecRL  : the admission limiter, backend/app/middleware/              *)
(*             rate_limiting.py                                            *)
(*   SpecOp  : one operation applied to one content, documents.py 290-306  *)
(*   SpecSeq : the document handlers and the document_operation frame      *)
(*             handler of manager.py, one request after another            *)
(*                                                                         *)
(* The parts share one state; each specification moves only its own        *)
(* variables.  Strings are sequences of one-character strings.             *)
(***************************************************************************)
EXTENDS Integers, Sequences, FiniteSets, TLC

VARIABLES
    \* ---- documents.py
    document,               \* the row of table documents: [content, version]
    document_operations,    \* the rows of table document_operations, in commit order
    req,                    \* the in-flight apply_document_operation requests
    initial_content,        \* the content create_document stored (never changes)
    \* ---- websocket/manager.py, main.py
    active_connections,     \* workspace_id -> list of websockets
    connection_users,       \* websocket -> user_id (None: no entry)
    user_connections,       \* user_id -> websocket (None: no entry)
    transport,              \* websocket -> "fresh" | "open" | "closed"
    task,                   \* one record per coroutine: endpoint and detached tasks
    presence,               \* the redis hash presence:{workspace_id}
    newest,                 \* user_id -> the websocket of the user's latest connect
    inbox,                  \* observed websocket -> user_id -> the status of the
                            \* last user_presence message about the user sent on it
    last_signal,            \* what the send_to_user call that just ended did
    last_broadcast,         \* what the broadcast_to_workspace call that just ended did
    \* ---- middleware/rate_limiting.py
    now,                    \* int(time.time())
    rules,                  \* resource class -> <<limit, window>>
    zsets,                  \* key -> the sorted set's members (member = str(score))
    expire_at,              \* key -> the time the key expires at (None: no key)
    response,               \* what the dispatch call that just ended did
    \* ---- documents.py 290-306 taken alone
    input,                  \* a content and an operation to apply to it
    output,                 \* the new content (None: not computed yet)
    \* ---- the handlers run one request after another
    call,                   \* what the handler call that just ended did
    doc_operations          \* the redis list doc_operations:{document_id}

docVars == <<document, document_operations, req, initial_content>>
wsVars == <<active_connections, connection_users, user_connections, transport,
            task, presence, newest, inbox, last_signal, last_broadcast>>
rlVars == <<now, rules, zsets, expire_at, response>>
opVars == <<input, output>>
seqVars == <<call, doc_operations>>
vars == <<docVars, wsVars, rlVars, opVars, seqVars>>

\* Python's None and a present value: an optional value is a list of at most
\* one element.
None == <<>>
Some(x) == <<x>>

Max(a, b) == IF a >= b THEN a ELSE b
Min(a, b) == IF a <= b THEN a ELSE b

(***************************************************************************)
(* Bounds of the model.                                                    *)
(***************************************************************************)
MaxReqs == 2        \* apply_document_operation requests
MaxConns == 2       \* websockets ever opened
MaxTime == 4        \* the last second of the clock
MaxLimit == 2       \* largest limit of a rule
MaxWindow == 2      \* longest window of a rule, in seconds
MaxLen == 3         \* longest content an operation is applied to alone
MaxPos == 4         \* largest position and length, either sign, applied alone
MaxOps == 2         \* operations accepted one after another
MaxFrames == 1      \* document_operation frames handled

(***************************************************************************)
(* documents.py: the operation sequencer                                   *)
(***************************************************************************)
Reqs == 1..MaxReqs
Payloads == {<<"a">>, <<"b">>}
Positions == {0, 1}
BaseVersions == {0, 1}      \* the document_version (base version) a request carries

\* DocumentOperationCreate: the request bodies the model submits.
DocumentOperationCreate ==
    [operation_type : {"insert"}, position : Positions, content : {Some(s) : s \in Payloads},
     length : {None}, document_version : BaseVersions]
    \cup
    [operation_type : {"delete"}, position : Positions, content : {None},
     length : {Some(1)}, document_version : BaseVersions]
    \cup
    [operation_type : {"format"}, position : {0}, content : {None},
     length : {None}, document_version : BaseVersions]

\* An index past the end that wraps around instead of stopping at the end.
SliceIndexWraps(p, n) == IF p < 0 THEN Max(p + n, 0) ELSE p % (n + 1)

\* Python's s[:p] and s[p:]: a negative index counts from the end, and an
\* index outside the string is clamped.
SliceIndex(p, n) == IF p < 0 THEN Max(p + n, 0) ELSE Min(p, n)
SliceTo(s, p) == SubSeq(s, 1, SliceIndex(p, Len(s)))
SliceFrom(s, p) == SubSeq(s, SliceIndex(p, Len(s)) + 1, Len(s))

\* `x or ""` and `x or 0`
OrEmpty(x) == IF x = None THEN <<>> ELSE x[1]
OrZero(x) == IF x = None THEN 0 ELSE x[1]

\* A handler that keeps no content for an operation it does not know.
ApplyOperationKnownOnly(current_content, op) ==
    IF op.operation_type = "insert"
    THEN SliceTo(current_content, op.position) \o OrEmpty(op.content)
         \o SliceFrom(current_content, op.position)
    ELSE IF op.operation_type = "delete"
    THEN LET end_pos == op.position + OrZero(op.length)
         IN  SliceTo(current_content, op.position) \o SliceFrom(current_content, end_pos)
    ELSE <<>>

\* documents.py 290-306: the new content of one operation.
ApplyOperation(current_content, op) ==
    IF op.operation_type = "insert"
    THEN SliceTo(current_content, op.position) \o OrEmpty(op.content)
         \o SliceFrom(current_content, op.position)
    ELSE IF op.operation_type = "delete"
    THEN LET end_pos == op.position + OrZero(op.length)
         IN  SliceTo(current_content, op.position) \o SliceFrom(current_content, end_pos)
    ELSE current_content

\* documents.py 270-274: coalesce(max(operation_index), -1) + 1 over the
\* committed rows of the document.
NextOperationIndex(rows) ==
    IF rows = <<>> THEN 0
    ELSE (CHOOSE m \in {rows[i].operation_index : i \in 1..Len(rows)} :
            \A i \in 1..Len(rows) : rows[i].operation_index <= m) + 1

IdleReq == [pc |-> "idle", content |-> <<>>, version |-> 0, operation_index |-> -1,
            position |-> 0]

\* documents.py 252-267: select the document joined with the caller's
\* membership; a caller who is no member gets 404.
ReadDocument(r) ==
    /\ req[r].pc = "idle"
    /\ IF r = 1 THEN TRUE ELSE req[r - 1].pc # "idle"   \* numbered as they arrive
    /\ \E member \in BOOLEAN :
         req' = [req EXCEPT ![r] =
                   IF member
                   THEN [@ EXCEPT !.pc = "read", !.content = document.content,
                                  !.version = document.version]
                   ELSE [@ EXCEPT !.pc = "not_found"]]
    /\ UNCHANGED <<document, document_operations, initial_content, wsVars, rlVars, opVars, seqVars>>

\* documents.py 269-274
ReadOperationIndex(r) ==
    /\ req[r].pc = "read"
    /\ req' = [req EXCEPT ![r] = [@ EXCEPT !.pc = "indexed",
                 !.operation_index = NextOperationIndex(document_operations)]]
    /\ UNCHANGED <<document, document_operations, initial_content, wsVars, rlVars, opVars, seqVars>>

\* documents.py 276-319: the row of the operation and the UPDATE of the
\* document, computed from what the request read, become visible together at
\* commit.  The request body is first used here, so it is drawn here.
CommitRows(r, op) ==
    /\ document_operations' = Append(document_operations,
          [operation_type |-> op.operation_type, position |-> op.position,
           content |-> op.content, length |-> op.length,
           document_version |-> op.document_version,
           operation_index |-> req[r].operation_index])
    /\ document' = [content |-> ApplyOperation(req[r].content, op),
                    version |-> req[r].version + 1]

CommitOperation(r) ==
    /\ req[r].pc = "indexed"
    /\ \E op \in DocumentOperationCreate : CommitRows(r, op)
    /\ req' = [req EXCEPT ![r].pc = "committed"]
    /\ UNCHANGED <<initial_content, wsVars, rlVars, opVars, seqVars>>

\* documents.py 319: the commit raises; the session is closed without a
\* commit (database.py 22-27), nothing is stored and the caller sees the error.
CommitFails(r) ==
    /\ req[r].pc = "indexed"
    /\ req' = [req EXCEPT ![r].pc = "failed"]
    /\ UNCHANGED <<document, document_operations, initial_content, wsVars, rlVars, opVars, seqVars>>

\* manager.py 84-95: the send_json calls on one connection of the group are
\* made in the order in which the broadcasts reach it; position is the place
\* of the request's message in what that connection receives.
Broadcasts == {q \in Reqs : req[q].pc = "done"}

\* documents.py 322-352: broadcast and response.
RespondOperation(r) ==
    /\ req[r].pc = "committed"
    /\ req' = [req EXCEPT ![r] = [@ EXCEPT !.pc = "done",
                                          !.position = Cardinality(Broadcasts) + 1]]
    /\ UNCHANGED <<document, document_operations, initial_content, wsVars, rlVars, opVars, seqVars>>

NextDoc ==
    \E r \in Reqs :
        \/ ReadDocument(r)
        \/ ReadOperationIndex(r)
        \/ CommitOperation(r)
        \/ CommitFails(r)
        \/ RespondOperation(r)

(***************************************************************************)
(* websocket/manager.py and the endpoint of main.py                        *)
(***************************************************************************)
Conns == 1..MaxConns
Users == {"u1", "u2"}
Workspaces == {"w1"}
Tasks == {"ep", "off"} \X Conns     \* the endpoint coroutine of a websocket, and
                                     \* the task its disconnect creates

Range(s) == {s[i] : i \in 1..Len(s)}

\* list.remove(x): the first occurrence goes.
RemoveFirst(list, x) ==
    LET i == CHOOSE k \in 1..Len(list) :
                 list[k] = x /\ \A j \in 1..(k - 1) : list[j] # x
    IN  SubSeq(list, 1, i - 1) \o SubSeq(list, i + 1, Len(list))

NoUser == "None"
Presence(user_id, status) ==
    [type |-> "user_presence", user_id |-> user_id, status |-> status]
IdleTask == [pc |-> "init", user |-> NoUser, bc |-> None, sig |-> None]
NoLastBroadcast ==
    [outcome |-> "none", message |-> Presence(NoUser, "none"), snapshot |-> <<>>, delivered |-> {},
     sent |-> <<>>, disconnected |-> <<>>, changed |-> FALSE]
NoLastSignal ==
    [result |-> "none", target |-> NoUser, conn |-> None, expected |-> None]

\* manager.py 84-86: a broadcast before its first loop step.  snapshot,
\* delivered, sent and changed only observe the call: the members when it
\* started, who received the message, the successful sends in their order, and
\* whether someone else changed the list since.
NewBroadcast(message) ==
    [message |-> message, i |-> 0, started |-> FALSE, disconnected |-> <<>>,
     snapshot |-> <<>>, delivered |-> {}, sent |-> <<>>, changed |-> FALSE]

Started(b, list) ==
    IF b.started THEN b ELSE [b EXCEPT !.started = TRUE, !.snapshot = list]

Running(t) == task[t].bc # None

\* Every other broadcast that is inside its loop sees the list change.
MarkChanged(tk, self) ==
    [t \in DOMAIN tk |->
        IF t # self /\ tk[t].bc # None /\ tk[t].bc[1].started
        THEN [tk[t] EXCEPT !.bc[1].changed = TRUE]
        ELSE tk[t]]

\* manager.py 88-91: one send of the loop; a failed send is remembered and
\* the loop goes on.
SendJson(b, connection, ok) ==
    IF ok
    THEN [b EXCEPT !.i = @ + 1, !.delivered = @ \cup {connection},
                   !.sent = Append(@, connection)]
    ELSE [b EXCEPT !.i = @ + 1, !.disconnected = Append(@, connection)]

\* A clean-up that removes a connection the except branch removed already.
CleanUpRemovedTwice(list, disconnected) ==
    [list |-> list, raised |-> disconnected # <<>>]

\* manager.py 94-95: list.remove raises ValueError when the element is gone.
RECURSIVE CleanUp(_, _)
CleanUp(list, disconnected) ==
    IF disconnected = <<>> THEN [list |-> list, raised |-> FALSE]
    ELSE IF Head(disconnected) \notin Range(list) THEN [list |-> list, raised |-> TRUE]
    ELSE CleanUp(RemoveFirst(list, Head(disconnected)), Tail(disconnected))

\* The token of a connect attempt: none, one that does not verify ("bad"), or
\* a valid one, which names its user; "u9" has a valid token and no account.
Tokens == {None, Some("bad"), Some("u9"), Some("u1"), Some("u2")}

\* The auth collaborator: verify_identity(credential) -> user_id | invalid.
verify_token(token) == IF token = Some("bad") THEN None ELSE token

\* The user table: select(User).where(User.id == user_id).scalar_one_or_none().
UserFound(user_id) == user_id \in Users

Closed(reason) == [ok |-> FALSE, user |-> NoUser, code |-> 1008, reason |-> reason]

\* A check of the token that trusts a verified token without a look-up.
AuthenticateByTokenOnly(token) ==
    IF token = None THEN Closed("No token provided")
    ELSE IF verify_token(token) = None THEN Closed("Invalid token")
    ELSE [ok |-> TRUE, user |-> verify_token(token)[1], code |-> 0, reason |-> ""]

\* main.py 58-79: the three checks before websocket_manager.connect.
Authenticate(token) ==
    IF token = None THEN Closed("No token provided")
    ELSE IF verify_token(token) = None THEN Closed("Invalid token")
    ELSE IF ~UserFound(verify_token(token)[1]) THEN Closed("User not found")
    ELSE [ok |-> TRUE, user |-> verify_token(token)[1], code |-> 0, reason |-> ""]

\* main.py 55-81 and manager.py 24-47: accept, register, bind the user and
\* start the presence broadcast (the first await after accept is its first send).
Connect(c, u, w) ==
    /\ task[<<"ep", c>>].pc = "init"
    /\ transport[c] = "fresh"
    /\ IF c = 1 THEN TRUE ELSE transport[c - 1] # "fresh"   \* numbered as they open
    /\ IF u = "u1" THEN TRUE ELSE newest["u1"] # None      \* named as they arrive
    /\ transport' = [transport EXCEPT ![c] = "open"]
    /\ active_connections' = [active_connections EXCEPT ![w] = Append(@, c)]
    /\ connection_users' = [connection_users EXCEPT ![c] = u]
    /\ user_connections' = [user_connections EXCEPT ![u] = Some(c)]
    /\ newest' = [newest EXCEPT ![u] = Some(c)]
    /\ task' = [MarkChanged(task, <<"ep", c>>) EXCEPT ![<<"ep", c>>] =
                  [pc |-> "connect_broadcast", user |-> u,
                   bc |-> Some(Started(NewBroadcast(Presence(u, "online")),
                                       active_connections'[w])),
                   sig |-> None]]
    /\ last_signal' = NoLastSignal
    /\ last_broadcast' = NoLastBroadcast
    /\ UNCHANGED <<presence, inbox,
                   docVars, rlVars, opVars, seqVars>>

\* What the client of an observed websocket has been told last about each user.
Receive(box, connection, message) ==
    IF connection \in DOMAIN box /\ message.type = "user_presence"
    THEN [box EXCEPT ![connection][message.user_id] = message.status]
    ELSE box

\* main.py 59-61, 70-72, 77-79: websocket.close(code, reason) and return; the
\* manager is never called.
Reject(c, auth) ==
    /\ task[<<"ep", c>>].pc = "init"
    /\ transport[c] = "fresh"
    /\ IF c = 1 THEN TRUE ELSE transport[c - 1] # "fresh"
    /\ transport' = [transport EXCEPT ![c] = "closed"]
    /\ task' = [task EXCEPT ![<<"ep", c>>] =
                  [pc |-> "rejected", user |-> NoUser, bc |-> None, sig |-> None,
                   code |-> auth.code, reason |-> auth.reason]]
    /\ last_signal' = NoLastSignal
    /\ last_broadcast' = NoLastBroadcast
    /\ UNCHANGED <<active_connections, connection_users, user_connections,
                   newest, presence, inbox,
                   docVars, rlVars, opVars, seqVars>>

\* main.py 55-81: one connect attempt, closed or handed to the manager.
websocket_endpoint(c, token, w) ==
    LET auth == Authenticate(token)
    IN  IF auth.ok THEN Connect(c, auth.user, w) ELSE Reject(c, auth)

\* manager.py 87-91: the next element of the live list, one send.
BroadcastSend(t, w) ==
    /\ Running(t)
    /\ LET list == active_connections[w]
           b == Started(task[t].bc[1], list)
       IN  /\ b.i < Len(list)
           /\ LET connection == list[b.i + 1]
                  ok == transport[connection] = "open"
              IN  /\ task' = [task EXCEPT ![t].bc = Some(SendJson(b, connection, ok))]
                  /\ inbox' = IF ok THEN Receive(inbox, connection, b.message)
                              ELSE inbox
    /\ last_signal' = NoLastSignal
    /\ last_broadcast' = NoLastBroadcast
    /\ UNCHANGED <<active_connections, connection_users, user_connections,
                   transport, newest, presence,
                   docVars, rlVars, opVars, seqVars>>

\* manager.py 93-95 and the return to the caller: connect goes on to its
\* redis write (manager.py 49-57), the detached task ends; an exception
\* leaves the endpoint (main.py 81-87 catches WebSocketDisconnect only).
BroadcastReturn(t, w) ==
    /\ Running(t)
    /\ LET list == active_connections[w]
           b == Started(task[t].bc[1], list)
           r == CleanUp(list, b.disconnected)
       IN  /\ b.i >= Len(list)
           /\ active_connections' = [active_connections EXCEPT ![w] = r.list]
           /\ last_broadcast' =
                 [outcome |-> IF r.raised THEN "raised" ELSE "done",
                  message |-> b.message, snapshot |-> b.snapshot,
                  delivered |-> b.delivered, sent |-> b.sent,
                  disconnected |-> b.disconnected,
                  changed |-> b.changed]
           /\ task' = [(IF r.list # list THEN MarkChanged(task, t) ELSE task)
                         EXCEPT ![t] =
                  IF t[1] = "off" THEN IdleTask
                  ELSE [@ EXCEPT !.bc = None,
                                 !.pc = IF r.raised THEN "crashed"
                                        ELSE IF @ = "frame_broadcast" THEN "lpush"
                                        ELSE "hset"]]
    /\ last_signal' = NoLastSignal
    /\ UNCHANGED <<connection_users, user_connections, transport, newest, presence, inbox,
                   docVars, rlVars, opVars, seqVars>>

\* manager.py 49-57: the presence hash of the workspace.
StorePresence(c, w) ==
    /\ task[<<"ep", c>>].pc = "hset"
    /\ presence' = [presence EXCEPT ![w][task[<<"ep", c>>].user] = "online"]
    /\ task' = [task EXCEPT ![<<"ep", c>>].pc = "reading"]
    /\ last_signal' = NoLastSignal
    /\ last_broadcast' = NoLastBroadcast
    /\ UNCHANGED <<active_connections, connection_users,
                   user_connections, transport, newest, inbox,
                   docVars, rlVars, opVars, seqVars>>

\* The client, or the network, closes the transport: later sends on it fail.
TransportCloses(c) ==
    /\ transport[c] = "open"
    /\ transport' = [transport EXCEPT ![c] = "closed"]
    /\ last_signal' = NoLastSignal
    /\ last_broadcast' = NoLastBroadcast
    /\ UNCHANGED <<active_connections, connection_users, user_connections,
                   task, newest, presence, inbox,
                   docVars, rlVars, opVars, seqVars>>

\* A disconnect that forgets the list entry but keeps the websocket's user.
disconnectKeepsUser(websocket, workspace_id) ==
    LET list == active_connections[workspace_id]
        user_id == connection_users[websocket]
    IN  [active_connections |->
            [active_connections EXCEPT ![workspace_id] =
                IF websocket \in Range(list) THEN RemoveFirst(list, websocket) ELSE list],
         connection_users |-> connection_users,
         user_connections |->
            IF user_id # NoUser
            THEN [user_connections EXCEPT ![user_id] = None] ELSE user_connections,
         created_task |->
            IF user_id # NoUser THEN Some(Presence(user_id, "offline")) ELSE None]

\* A disconnect that leaves the user's binding to the websocket in place.
disconnectKeepsBinding(websocket, workspace_id) ==
    LET list == active_connections[workspace_id]
        user_id == connection_users[websocket]
    IN  [active_connections |->
            [active_connections EXCEPT ![workspace_id] =
                IF websocket \in Range(list) THEN RemoveFirst(list, websocket) ELSE list],
         connection_users |->
            IF user_id # NoUser
            THEN [connection_users EXCEPT ![websocket] = NoUser] ELSE connection_users,
         user_connections |-> user_connections,
         created_task |->
            IF user_id # NoUser THEN Some(Presence(user_id, "offline")) ELSE None]

\* manager.py 59-79: the registries after disconnect(websocket, workspace_id)
\* and the message of the broadcast task it creates, if any.
disconnect(websocket, workspace_id) ==
    LET list == active_connections[workspace_id]
        user_id == connection_users[websocket]
    IN  [active_connections |->
            [active_connections EXCEPT ![workspace_id] =
                IF websocket \in Range(list) THEN RemoveFirst(list, websocket) ELSE list],
         connection_users |->
            IF user_id # NoUser
            THEN [connection_users EXCEPT ![websocket] = NoUser] ELSE connection_users,
         user_connections |->
            IF user_id # NoUser
            THEN [user_connections EXCEPT ![user_id] = None] ELSE user_connections,
         created_task |->
            IF user_id # NoUser THEN Some(Presence(user_id, "offline")) ELSE None]

\* manager.py 59-79, called from main.py 86-87 when receive_json raises
\* WebSocketDisconnect.
Disconnect(c, w) ==
    /\ task[<<"ep", c>>].pc = "reading"
    /\ transport[c] = "closed"
    /\ LET r == disconnect(c, w)
           tk == IF c \in Range(active_connections[w])
                 THEN MarkChanged(task, <<"ep", c>>) ELSE task
       IN  /\ active_connections' = r.active_connections
           /\ connection_users' = r.connection_users
           /\ user_connections' = r.user_connections
           /\ task' = IF r.created_task # None
                      THEN [tk EXCEPT
                              ![<<"ep", c>>].pc = "closed",
                              ![<<"off", c>>] =
                                 [pc |-> "offline_broadcast",
                                  user |-> r.created_task[1].user_id,
                                  bc |-> Some(NewBroadcast(r.created_task[1])),
                                  sig |-> None]]
                      ELSE [tk EXCEPT ![<<"ep", c>>].pc = "closed"]
    /\ last_signal' = NoLastSignal
    /\ last_broadcast' = NoLastBroadcast
    /\ UNCHANGED <<transport, newest, presence, inbox,
                   docVars, rlVars, opVars, seqVars>>

\* The websocket a signal to u has to reach: the one of u's latest connect,
\* when u connected more than once and that websocket is still open.
Reconnected(u) ==
    \E c \in Conns : task[<<"ep", c>>].user = u /\ Some(c) # newest[u]
NewestOpen(u) == newest[u] # None /\ transport[newest[u][1]] = "open"
Expected(u) == IF Reconnected(u) /\ NewestOpen(u) THEN newest[u] ELSE None

\* A lookup that takes the first websocket registered for the user.
FirstConnectionOf(user_id) ==
    Some(CHOOSE c \in DOMAIN connection_users :
            /\ connection_users[c] = user_id
            /\ \A d \in DOMAIN connection_users :
                  connection_users[d] = user_id => c <= d)

\* manager.py 100: self.user_connections[user_id], the websocket sent on.
BoundConnection(user_id) == user_connections[user_id]

\* manager.py 178-192 and 97-100: a webrtc_signal frame read by the endpoint
\* of c; send_to_user looks the target up and starts its send, or returns
\* False at once.
SignalReceived(c, target) ==
    /\ task[<<"ep", c>>].pc = "reading"
    /\ transport[c] = "open"
    /\ IF user_connections[target] = None
       THEN /\ last_signal' = [result |-> "dropped", target |-> target, conn |-> None,
                               expected |-> Expected(target)]
            /\ task' = task
       ELSE /\ task' = [task EXCEPT ![<<"ep", c>>] =
                 [@ EXCEPT !.pc = "signal_send",
                           !.sig = Some([target |-> target,
                                         conn |-> BoundConnection(target),
                                         expected |-> Expected(target)])]]
            /\ last_signal' = NoLastSignal
    /\ last_broadcast' = NoLastBroadcast
    /\ UNCHANGED <<active_connections, connection_users, user_connections,
                   transport, newest, presence, inbox,
                   docVars, rlVars, opVars, seqVars>>

\* manager.py 100-105: the send returns or raises; `del` of a binding that is
\* gone raises KeyError, which leaves the endpoint.
SendToUserReturns(s, result) ==
    [result |-> result, target |-> s.target, conn |-> s.conn,
     expected |-> IF s.expected # None /\ transport[s.expected[1]] = "open"
                  THEN s.expected ELSE None]

SignalSent(c) ==
    /\ task[<<"ep", c>>].pc = "signal_send"
    /\ LET s == task[<<"ep", c>>].sig[1]
           ok == transport[s.conn[1]] = "open"
           gone == user_connections[s.target] = None
       IN  IF ok
           THEN /\ last_signal' = SendToUserReturns(s, "sent")
                /\ task' = [task EXCEPT ![<<"ep", c>>] =
                              [@ EXCEPT !.pc = "reading", !.sig = None]]
                /\ UNCHANGED user_connections
           ELSE IF gone
           THEN /\ last_signal' = SendToUserReturns(s, "raised")
                /\ task' = [task EXCEPT ![<<"ep", c>>] =
                              [@ EXCEPT !.pc = "crashed", !.sig = None]]
                /\ UNCHANGED user_connections
           ELSE /\ last_signal' = SendToUserReturns(s, "failed")
                /\ user_connections' = [user_connections EXCEPT ![s.target] = None]
                /\ task' = [task EXCEPT ![<<"ep", c>>] =
                              [@ EXCEPT !.pc = "reading", !.sig = None]]
    /\ last_broadcast' = NoLastBroadcast
    /\ UNCHANGED <<active_connections, connection_users, transport, newest, presence, inbox,
                   docVars, rlVars, opVars, seqVars>>

\* manager.py 207-224: one entry per field of the presence hash.
get_workspace_presence(workspace_id) ==
    {[user_id |-> u, status |-> presence[workspace_id][u]] :
        u \in {x \in Users : presence[workspace_id][x] # "none"}}

NextWS ==
    \E c \in Conns, w \in Workspaces :
        \/ \E token \in Tokens : websocket_endpoint(c, token, w)
        \/ \E k \in {"ep", "off"} : BroadcastSend(<<k, c>>, w)
        \/ \E k \in {"ep", "off"} : BroadcastReturn(<<k, c>>, w)
        \/ StorePresence(c, w)
        \/ TransportCloses(c)
        \/ Disconnect(c, w)
        \/ \E target \in Users : SignalReceived(c, target)
        \/ SignalSent(c)

\* One member watches while a user connects, leaves and connects again: the
\* same steps on one websocket more, by one user, without signals.
WideConns == 1..(MaxConns + 1)

NextPresence ==
    \E c \in WideConns, w \in Workspaces :
        \/ Connect(c, "u1", w)
        \/ \E k \in {"ep", "off"} : BroadcastSend(<<k, c>>, w)
        \/ \E k \in {"ep", "off"} : BroadcastReturn(<<k, c>>, w)
        \/ StorePresence(c, w)
        \/ TransportCloses(c)
        \/ Disconnect(c, w)

(***************************************************************************)
(* middleware/rate_limiting.py: the admission limiter                      *)
(***************************************************************************)
Times == 0..MaxTime
Pairs == (1..MaxLimit) \X (1..MaxWindow)
MaxBurst == MaxLimit + 1    \* requests followed in a row on one key in one second

\* The paths the model requests, and the segments of each.
Paths == {"/api/documents/d1", "/api/documents/d2", "/api/tasks", "/health"}
HealthPaths == {"/health", "/health/detailed"}
Segments(path) ==
    CASE path = "/api/documents/d1" -> <<"api", "documents", "d1">>
      [] path = "/api/documents/d2" -> <<"api", "documents", "d2">>
      [] path = "/api/tasks" -> <<"api", "tasks">>
      [] path = "/health" -> <<"health">>

\* rate_limiting.py 17-23: the keys of self.rules in insertion order, and the
\* segments each is a prefix of ('default' begins no path).
RuleNames == <<"/api/auth/login", "/api/auth/register", "/api/chat/",
               "/api/documents/", "default">>
RulePrefix(name) ==
    CASE name = "/api/auth/login" -> <<"api", "auth", "login">>
      [] name = "/api/auth/register" -> <<"api", "auth", "register">>
      [] name = "/api/chat/" -> <<"api", "chat">>
      [] name = "/api/documents/" -> <<"api", "documents">>
      [] OTHER -> None

StartsWith(path, name) ==
    LET prefix == RulePrefix(name)
    IN  /\ prefix # None
        /\ Len(prefix) <= Len(Segments(path))
        /\ SubSeq(Segments(path), 1, Len(prefix)) = prefix

\* rate_limiting.py 36-41: the first rule whose path the request path starts
\* with, else the default rule.
get_rate_limit_rule(path) ==
    IF \E i \in 1..Len(RuleNames) : StartsWith(path, RuleNames[i])
    THEN rules[RuleNames[CHOOSE i \in 1..Len(RuleNames) :
                   /\ StartsWith(path, RuleNames[i])
                   /\ \A j \in 1..(i - 1) : ~StartsWith(path, RuleNames[j])]]
    ELSE rules["default"]

\* rate_limiting.py 30-34: f"rate_limit:{client_ip}:{path}".  The model has
\* one client address, so the path tells the keys apart.
get_rate_limit_key(path) == path
Keys == {get_rate_limit_key(path) : path \in Paths \ HealthPaths}

\* A purge that keeps the entry at window_start.
RemoveOlderEntries(members, window_start) ==
    {t \in members : ~(0 <= t /\ t < window_start)}

\* rate_limiting.py 54: zremrangebyscore(key, 0, window_start), both ends
\* inclusive.
RemoveOldEntries(members, window_start) ==
    {t \in members : ~(0 <= t /\ t <= window_start)}

\* A limiter that fails closed.
StoreErrorBlocks(members) ==
    [is_limited |-> TRUE, current_requests |-> 0, members |-> members,
     written |-> FALSE]

\* rate_limiting.py 70-73: any error of the store.
StoreError(members) ==
    [is_limited |-> FALSE, current_requests |-> 0, members |-> members,
     written |-> FALSE]

\* rate_limiting.py 43-68: the pipeline.  The member added is str(current_time),
\* so the zset holds each second at most once.
is_rate_limited(members, limit, window, current_time, up) ==
    IF ~up THEN StoreError(members)
    ELSE LET kept == RemoveOldEntries(members, current_time - window)
             current_requests == Cardinality(kept)
         IN  [is_limited |-> current_requests >= limit,
              current_requests |-> current_requests,
              members |-> kept \cup {current_time},
              written |-> TRUE]

NoResponse ==
    [status |-> 0, path |-> "", time |-> 0, limit |-> 0, window |-> 0, current |-> 0,
     store_ok |-> FALSE, quiet |-> FALSE, was_full |-> FALSE, recorded |-> FALSE,
     admitted_run |-> 0, forwarded |-> FALSE]

\* A rejection that counts the rejected request itself.
RateLimitResponseCountsItself(is_limited, limit, window, current_count) ==
    [status |-> IF is_limited THEN 429 ELSE 200, limit |-> limit, window |-> window,
     current |-> IF is_limited THEN current_count + 1 ELSE current_count,
     forwarded |-> ~is_limited]

\* rate_limiting.py 87-110: the 429 response with limit, window and current in
\* its body, returned without call_next; or the response of call_next.
RateLimitResponse(is_limited, limit, window, current_count) ==
    [status |-> IF is_limited THEN 429 ELSE 200, limit |-> limit, window |-> window,
     current |-> current_count, forwarded |-> ~is_limited]

\* rate_limiting.py 75-110; `up` is whether the store answers this call.
\* quiet, was_full, recorded and admitted_run only observe the call: whether
\* every member the key held was a full window old, whether the key held as
\* many members as the limit, whether the call added a member, and how many
\* requests in a row the limiter has admitted on this key in this second.
Dispatch(path, up) ==
    IF path \in HealthPaths
    THEN /\ response' = [NoResponse EXCEPT !.status = 200, !.path = path, !.time = now,
                                           !.forwarded = TRUE]
         /\ UNCHANGED <<now, rules, zsets, expire_at>>
    ELSE \E rule \in {get_rate_limit_rule(path)} :
         \E r \in {is_rate_limited(zsets[get_rate_limit_key(path)],
                                   rule[1], rule[2], now, up)} :
         LET limit == rule[1]
             window == rule[2]
             key == get_rate_limit_key(path)
             answer == RateLimitResponse(r.is_limited, limit, window,
                                         r.current_requests)
             run == IF response.path = path /\ response.time = now
                       /\ response.status = 200 /\ response.store_ok
                    THEN response.admitted_run ELSE 0
         IN  /\ run < MaxBurst
             /\ zsets' = [zsets EXCEPT ![key] = r.members]
             /\ expire_at' = IF r.written
                             THEN [expire_at EXCEPT ![key] = Some(now + window)]
                             ELSE expire_at
             /\ response' =
                   [status |-> answer.status,
                    path |-> path, time |-> now, limit |-> answer.limit,
                    window |-> answer.window,
                    current |-> answer.current, forwarded |-> answer.forwarded,
                    store_ok |-> up,
                    quiet |-> \A t \in zsets[key] : now - t >= window,
                    was_full |-> Cardinality(zsets[key]) >= limit,
                    recorded |-> r.members # RemoveOldEntries(zsets[key], now - window),
                    admitted_run |-> IF r.is_limited \/ ~up THEN 0 ELSE run + 1]
             /\ UNCHANGED <<now, rules>>

Request(path, up) ==
    /\ Dispatch(path, up)
    /\ UNCHANGED <<docVars, wsVars, opVars, seqVars>>

\* redis deletes a key `window` seconds after its last EXPIRE: somewhere in the
\* second expire_at, since the clock the limiter reads is truncated.
DeleteKey(key) ==
    /\ zsets' = [zsets EXCEPT ![key] = {}]
    /\ expire_at' = [expire_at EXCEPT ![key] = None]

KeyExpires(key) ==
    /\ expire_at[key] # None
    /\ now >= expire_at[key][1]
    /\ DeleteKey(key)
    /\ response' = NoResponse
    /\ UNCHANGED <<now, rules, docVars, wsVars, opVars, seqVars>>

\* time.time() moves to the next second; keys due in the past second are gone.
Tick ==
    /\ now < MaxTime
    /\ now' = now + 1
    /\ LET due == {k \in Keys : expire_at[k] # None /\ expire_at[k][1] <= now}
       IN  /\ zsets' = [k \in Keys |-> IF k \in due THEN {} ELSE zsets[k]]
           /\ expire_at' = [k \in Keys |-> IF k \in due THEN None ELSE expire_at[k]]
    /\ response' = NoResponse
    /\ UNCHANGED <<rules, docVars, wsVars, opVars, seqVars>>

NextRL ==
    \/ \E path \in Paths, up \in BOOLEAN : Request(path, up)
    \/ \E key \in Keys : KeyExpires(key)
    \/ Tick

(***************************************************************************)
(* documents.py 290-306 taken alone: one content, one operation            *)
(***************************************************************************)
Letters == <<"x", "y", "z", "w", "v">>
Contents == {SubSeq(Letters, 1, n) : n \in 0..Min(MaxLen, Len(Letters))}
WidePositions == (0 - MaxPos)..MaxPos
WideLengths == {None} \cup {Some(l) : l \in (0 - MaxPos)..MaxPos}
WidePayloads == {None, Some(<<"a">>), Some(<<"a", "b">>)}

\* DocumentOperationCreate with every position and length of the range
\* (documents.py 49-54: both are plain ints, nothing validates them).
WideOperations ==
    [operation_type : {"insert"}, position : WidePositions, content : WidePayloads,
     length : {None}, document_version : {0}]
    \cup
    [operation_type : {"delete"}, position : WidePositions, content : {None},
     length : WideLengths, document_version : {0}]
    \cup
    [operation_type : {"format"}, position : {0}, content : {None},
     length : {None}, document_version : {0}]

\* documents.py 291-306 on the drawn input.
ApplyToContent ==
    /\ output = None
    /\ output' = Some(ApplyOperation(input.content, input.op))
    /\ UNCHANGED <<input, docVars, wsVars, rlVars, seqVars>>

NextOp == ApplyToContent

(***************************************************************************)
(* documents.py and manager.py, the handlers run one request after another *)
(***************************************************************************)
\* The base version a request carries, counted from the version of the
\* document: one behind it, the version itself, one ahead of it.
BaseVersionOffsets == {-1, 0, 1}
\* The since_version values asked for: up to the highest version reached.
SinceVersions == 0..(MaxOps + 1)

\* The request bodies of DocumentOperationCreate at the start of the content,
\* given a base version when they are submitted.
Rebase(op, base) == [op EXCEPT !.document_version = base]
SubmittedOperations ==
    {o \in DocumentOperationCreate :
        /\ o.document_version = 0 /\ o.position = 0
        /\ o.content \in {None, Some(<<"a">>)}}

\* documents.py 277-286: the row of an operation.
OperationRow(op, operation_index) ==
    [operation_type |-> op.operation_type, position |-> op.position,
     content |-> op.content, length |-> op.length,
     document_version |-> op.document_version,
     operation_index |-> operation_index]

\* documents.py 325-338: the message of an accepted operation.
OperationMessage(op, operation_index, user_id) ==
    [type |-> "document_operation", user_id |-> user_id,
     operation_type |-> op.operation_type, position |-> op.position,
     content |-> op.content, length |-> op.length,
     document_version |-> op.document_version,
     operation_index |-> operation_index]

\* manager.py 158-167: the message of a document_operation frame.
FrameMessage(frame) ==
    [type |-> "document_operation", user_id |-> frame.user_id,
     operation |-> frame.operation, position |-> frame.position,
     content |-> frame.content, version |-> frame.version]

Frames ==
    [user_id : {"u2"}, operation : {"insert"}, position : {0},
     content : {Some(<<"b">>)}, version : {0}]

\* manager.py 84-95 with nothing else running: every send of the loop, then
\* the clean-up.
RECURSIVE SendAll(_, _)
SendAll(b, list) ==
    IF b.i >= Len(list) THEN b
    ELSE SendAll(SendJson(b, list[b.i + 1], transport[list[b.i + 1]] = "open"), list)

broadcast_to_workspace(list, message) ==
    LET b == SendAll(Started(NewBroadcast(message), list), list)
    IN  [delivered |-> b.delivered, list |-> CleanUp(list, b.disconnected).list]

\* A commit that leaves the row behind when it fails.
CommitKeepsRow(ok, before, after) ==
    IF ok THEN after ELSE [before EXCEPT !.rows = after.rows]

\* documents.py 319 and database.py 22-27: the row and the UPDATE are in one
\* transaction; when commit raises the session is closed and both are gone.
Commit(ok, before, after) == IF ok THEN after ELSE before

NoCall ==
    [kind |-> "none", status |-> 0, op |-> None, operation_index |-> -1,
     before |-> [content |-> <<>>, version |-> 0, rows |-> <<>>],
     since |-> 0, operations |-> <<>>, current_version |-> 0,
     message |-> None, group |-> <<>>, delivered |-> {}]

CurrentUser == "u1"     \* the caller of the REST handlers

\* An UPDATE that writes the version back as it was read.
VersionKept(version) == version

\* documents.py 314: version=document.version + 1
NextVersion(version) == version + 1

\* A handler that turns away an operation whose base version is not the
\* version of the document.
StatusChecksBase(member, op, version, ok) ==
    IF ~member THEN 404
    ELSE IF op.document_version # version THEN 409
    ELSE IF ok THEN 200 ELSE 500

\* documents.py 263-267, 319, 341: 404 for a caller who is no member, the
\* error of a failed commit, else the response; operation_data.document_version
\* is only stored (284) and sent (335), never compared.
StatusOf(member, op, version, ok) ==
    IF ~member THEN 404
    ELSE IF ok THEN 200 ELSE 500

\* documents.py 245-352 from the select of the document to the response.
\* member: the caller is a member of the workspace; ok: the commit succeeds.
apply_document_operation(w, member, op, ok) ==
    /\ Len(document_operations) < MaxOps
    /\ LET before == [content |-> document.content, version |-> document.version,
                      rows |-> document_operations]
           operation_index == NextOperationIndex(document_operations)
           after == [content |-> ApplyOperation(document.content, op),
                     version |-> NextVersion(document.version),
                     rows |-> Append(document_operations,
                                     OperationRow(op, operation_index))]
           status == StatusOf(member, op, document.version, ok)
           stored == Commit(status = 200, before, after)
           message == OperationMessage(op, operation_index, CurrentUser)
           bc == broadcast_to_workspace(active_connections[w], message)
       IN  IF status \notin {200, 500}
           THEN /\ call' = [NoCall EXCEPT !.kind = "apply", !.status = status,
                                          !.before = before]
                /\ UNCHANGED <<document, document_operations, active_connections>>
           ELSE /\ document' = [content |-> stored.content, version |-> stored.version]
                /\ document_operations' = stored.rows
                /\ active_connections' =
                      IF status = 200 THEN [active_connections EXCEPT ![w] = bc.list]
                      ELSE active_connections
                /\ call' = [NoCall EXCEPT
                      !.kind = "apply", !.status = status,
                      !.op = IF status = 200 THEN Some(op) ELSE None,
                      !.operation_index = operation_index,
                      !.before = before,
                      !.message = IF status = 200 THEN Some(message) ELSE None,
                      !.group = IF status = 200 THEN active_connections[w] ELSE <<>>,
                      !.delivered = IF status = 200 THEN bc.delivered ELSE {}]
    /\ UNCHANGED <<req, initial_content, connection_users, user_connections,
                   transport, task, presence, newest, inbox, last_signal, last_broadcast,
                   doc_operations, rlVars, opVars>>

\* A filter that also returns the rows at since_version.
WhereAtLeast(rows, since_version) ==
    SelectSeq(rows, LAMBDA o : o.document_version >= since_version)

\* documents.py 384: the rows whose document_version is above since_version.
Where(rows, since_version) ==
    SelectSeq(rows, LAMBDA o : o.document_version > since_version)

\* documents.py 386: order_by(operation_index), rows of equal index in the
\* order they were stored.
RECURSIVE OrderBy(_)
OrderBy(rows) ==
    IF rows = <<>> THEN <<>>
    ELSE LET o == rows[Len(rows)]
             sorted == OrderBy(SubSeq(rows, 1, Len(rows) - 1))
             k == Cardinality({i \in 1..Len(sorted) :
                                 sorted[i].operation_index <= o.operation_index})
         IN  SubSeq(sorted, 1, k) \o <<o>> \o SubSeq(sorted, k + 1, Len(sorted))

\* documents.py 354-405
get_document_operations(member, since_version) ==
    /\ call' = IF ~member
               THEN [NoCall EXCEPT !.kind = "get", !.status = 404]
               ELSE [NoCall EXCEPT
                       !.kind = "get", !.status = 200, !.since = since_version,
                       !.operations = OrderBy(Where(document_operations, since_version)),
                       !.current_version = document.version]
    /\ UNCHANGED <<docVars, wsVars, doc_operations, rlVars, opVars>>

\* manager.py 156-176: a document_operation frame read from websocket c is
\* broadcast, then pushed on the redis list.
handle_document_operation(w, c, frame) ==
    /\ Len(doc_operations) < MaxFrames
    /\ c \in Range(active_connections[w])
    /\ transport[c] = "open"
    /\ LET message == FrameMessage(frame)
           bc == broadcast_to_workspace(active_connections[w], message)
       IN  /\ active_connections' = [active_connections EXCEPT ![w] = bc.list]
           /\ doc_operations' = <<message>> \o doc_operations
           /\ call' = [NoCall EXCEPT
                 !.kind = "frame", !.status = 200,
                 !.before = [content |-> document.content,
                             version |-> document.version,
                             rows |-> document_operations],
                 !.message = Some(message), !.group = active_connections[w],
                 !.delivered = bc.delivered]
    /\ UNCHANGED <<docVars, connection_users, user_connections, transport, task,
                   presence, newest, inbox, last_signal, last_broadcast, rlVars, opVars>>

\* documents.py 25-29: the body of a PUT; content is None when the field is
\* not set (title and is_public are no part of the modelled state).
DocumentUpdates == {None, Some(<<>>)}

\* documents.py 407-444: the set fields are written to the document row as
\* they are; no document_operations row, and version is not among the values.
update_document(member, content) ==
    /\ IF member /\ content # None
       THEN document' = [document EXCEPT !.content = content[1]]
       ELSE document' = document
    /\ call' = [NoCall EXCEPT
          !.kind = "update", !.status = IF member THEN 200 ELSE 404,
          !.before = [content |-> document.content, version |-> document.version,
                      rows |-> document_operations]]
    /\ UNCHANGED <<document_operations, req, initial_content, wsVars,
                   doc_operations, rlVars, opVars>>

\* manager.py 194-205: the cursor message goes to the group; nothing is stored.
CursorMessage(frame) ==
    [type |-> "cursor_position", user_id |-> frame.user_id, position |-> frame.position]

handle_cursor_position(w, c, frame) ==
    LET message == CursorMessage(frame)
        bc == broadcast_to_workspace(active_connections[w], message)
    IN  /\ active_connections' = [active_connections EXCEPT ![w] = bc.list]
        /\ call' = [NoCall EXCEPT
              !.kind = "cursor", !.status = 200,
              !.message = Some(message), !.group = active_connections[w],
              !.delivered = bc.delivered]
        /\ UNCHANGED <<docVars, connection_users, user_connections, transport, task,
                       presence, newest, inbox, last_signal, last_broadcast,
                       doc_operations, rlVars, opVars>>

\* The "type" of an inbound frame as message.get("type") returns it: a known
\* type, some other string, or None for a frame without the key.
MessageTypes ==
    {Some("document_operation"), Some("cursor_position"), Some("ping"), None}

\* A dispatch whose last branch is an else.
HandlerOrLast(message_type) ==
    IF message_type = Some("chat_message") THEN "handle_chat_message"
    ELSE IF message_type = Some("typing") THEN "handle_typing"
    ELSE IF message_type = Some("document_operation") THEN "handle_document_operation"
    ELSE IF message_type = Some("webrtc_signal") THEN "handle_webrtc_signal"
    ELSE "handle_cursor_position"

\* manager.py 108-119: the if / elif chain; no branch for anything else.
Handler(message_type) ==
    IF message_type = Some("chat_message") THEN "handle_chat_message"
    ELSE IF message_type = Some("typing") THEN "handle_typing"
    ELSE IF message_type = Some("document_operation") THEN "handle_document_operation"
    ELSE IF message_type = Some("webrtc_signal") THEN "handle_webrtc_signal"
    ELSE IF message_type = Some("cursor_position") THEN "handle_cursor_position"
    ELSE "none"

\* main.py 84-85 and manager.py 107-119: a frame read on websocket c and
\* dispatched; a frame no branch takes leaves everything as it is and the
\* endpoint returns to receive_json.
handle_message(w, c, message_type, frame) ==
    /\ c \in Range(active_connections[w])
    /\ transport[c] = "open"
    /\ LET handler == Handler(message_type)
       IN  IF handler = "handle_document_operation"
           THEN handle_document_operation(w, c, frame)
           ELSE IF handler = "handle_cursor_position"
           THEN handle_cursor_position(w, c, frame)
           ELSE /\ handler = "none"
                /\ call' = [NoCall EXCEPT !.kind = "ignored", !.status = 200]
                /\ UNCHANGED <<docVars, wsVars, doc_operations, rlVars, opVars>>

NextSeq ==
    \/ \E w \in Workspaces, member \in BOOLEAN, ok \in BOOLEAN,
             op \in SubmittedOperations, offset \in BaseVersionOffsets :
          apply_document_operation(w, member, Rebase(op, document.version + offset), ok)
    \/ \E member \in BOOLEAN, since_version \in SinceVersions :
          get_document_operations(member, since_version)
    \/ \E member \in BOOLEAN, content \in DocumentUpdates :
          update_document(member, content)
    \/ \E w \in Workspaces, c \in Conns, message_type \in MessageTypes,
             frame \in Frames :
          handle_message(w, c, message_type, frame)

(***************************************************************************)
(* Initial state and specifications                                        *)
(***************************************************************************)
InitialContents == {<<>>, <<"x">>}

InitDoc ==
    /\ initial_content \in InitialContents
    /\ document = [content |-> initial_content, version |-> 1]
    /\ document_operations = <<>>
    /\ req = [r \in Reqs |-> IdleReq]

InitWS ==
    /\ active_connections = [w \in Workspaces |-> <<>>]
    /\ connection_users = [c \in Conns |-> NoUser]
    /\ user_connections = [u \in Users |-> None]
    /\ transport = [c \in Conns |-> "fresh"]
    /\ task = [t \in Tasks |-> IdleTask]
    /\ presence = [w \in Workspaces |-> [u \in Users |-> "none"]]
    /\ newest = [u \in Users |-> None]
    /\ inbox = <<>>
    /\ last_signal = NoLastSignal
    /\ last_broadcast = NoLastBroadcast

InitRL ==
    /\ now = 0
    /\ \E documents \in Pairs :
          rules = [name \in Range(RuleNames) |->
                     IF name = "/api/documents/" THEN documents
                     ELSE <<MaxLimit, MaxWindow>>]
    /\ zsets = [k \in Keys |-> {}]
    /\ expire_at = [k \in Keys |-> None]
    /\ response = NoResponse

InitOp ==
    /\ input \in [content : Contents, op : WideOperations]
    /\ output = None

InitSeq ==
    /\ call = NoCall
    /\ doc_operations = <<>>

\* The connection manager with nobody connected, or with every websocket
\* connected, open and in its receive loop.
UserOf(c) == IF c % 2 = 1 THEN "u1" ELSE "u2"
Latest(u, k) ==
    IF \E c \in 1..k : UserOf(c) = u
    THEN Some(CHOOSE c \in 1..k : UserOf(c) = u /\ \A d \in 1..k : UserOf(d) = u => d <= c)
    ELSE None
InitConnected ==
    \E k \in {0, MaxConns} :
        /\ active_connections = [w \in Workspaces |-> [c \in 1..k |-> c]]
        /\ connection_users = [c \in Conns |-> IF c <= k THEN UserOf(c) ELSE NoUser]
        /\ user_connections = [u \in Users |-> Latest(u, k)]
        /\ transport = [c \in Conns |-> IF c <= k THEN "open" ELSE "fresh"]
        /\ task = [t \in Tasks |->
                     IF t[1] = "ep" /\ t[2] <= k
                     THEN [IdleTask EXCEPT !.pc = "reading", !.user = UserOf(t[2])]
                     ELSE IdleTask]
        /\ presence = [w \in Workspaces |->
                         [u \in Users |-> IF Latest(u, k) # None THEN "online" ELSE "none"]]
        /\ newest = [u \in Users |-> Latest(u, k)]
        /\ inbox = <<>>
        /\ last_signal = NoLastSignal
        /\ last_broadcast = NoLastBroadcast

\* The group after the connect of one user, u2, has completed (manager.py
\* 24-57): the websocket is registered, bound, open and its endpoint reads;
\* what is sent on it from now on is observed.
Observer == 1
InitObserved ==
    /\ active_connections = [w \in Workspaces |-> <<Observer>>]
    /\ connection_users = [c \in WideConns |-> IF c = Observer THEN "u2" ELSE NoUser]
    /\ user_connections = [u \in Users |-> IF u = "u2" THEN Some(Observer) ELSE None]
    /\ transport = [c \in WideConns |-> IF c = Observer THEN "open" ELSE "fresh"]
    /\ task = [t \in {"ep", "off"} \X WideConns |->
                 IF t = <<"ep", Observer>>
                 THEN [IdleTask EXCEPT !.pc = "reading", !.user = "u2"]
                 ELSE IdleTask]
    /\ presence = [w \in Workspaces |->
                     [u \in Users |-> IF u = "u2" THEN "online" ELSE "none"]]
    /\ newest = [u \in Users |-> IF u = "u2" THEN Some(Observer) ELSE None]
    /\ inbox = [c \in {Observer} |-> [u \in Users |-> "none"]]
    /\ last_signal = NoLastSignal
    /\ last_broadcast = NoLastBroadcast

\* Each specification starts the other parts in one fixed state.
OneDoc == initial_content = <<>>
OneRL == rules["/api/documents/"] = <<1, 1>>
OneOp == input = [content |-> <<>>, op |-> Rebase(CHOOSE o \in DocumentOperationCreate :
                                                     o.operation_type = "format", 0)]

(***************************************************************************)
(* The read loop of an endpoint, frame by frame, among concurrent tasks     *)
(***************************************************************************)
\* main.py 84-85 and manager.py 156-169: a document_operation frame read on
\* websocket c; its handler builds the message and starts the broadcast.
FrameReceived(c, w, frame) ==
    /\ task[<<"ep", c>>].pc = "reading"
    /\ transport[c] = "open"
    /\ Len(doc_operations) < MaxFrames
    /\ task' = [task EXCEPT ![<<"ep", c>>] =
                  [pc |-> "frame_broadcast", user |-> @.user,
                   bc |-> Some(NewBroadcast(FrameMessage(frame))), sig |-> None,
                   message |-> FrameMessage(frame)]]
    /\ last_signal' = NoLastSignal
    /\ last_broadcast' = NoLastBroadcast
    /\ UNCHANGED <<active_connections, connection_users, user_connections,
                   transport, newest, presence, inbox,
                   docVars, rlVars, opVars, seqVars>>

\* manager.py 171-175: redis.lpush of the message; the handler returns to the
\* loop, or the write raises and the exception leaves the endpoint (main.py
\* 86 catches WebSocketDisconnect only).
StoreOperation(c, ok) ==
    /\ task[<<"ep", c>>].pc = "lpush"
    /\ IF ok
       THEN /\ doc_operations' = <<task[<<"ep", c>>].message>> \o doc_operations
            /\ task' = [task EXCEPT ![<<"ep", c>>] =
                          [pc |-> "reading", user |-> @.user, bc |-> None, sig |-> None]]
       ELSE /\ doc_operations' = doc_operations
            /\ task' = [task EXCEPT ![<<"ep", c>>].pc = "crashed"]
    /\ last_signal' = NoLastSignal
    /\ last_broadcast' = NoLastBroadcast
    /\ UNCHANGED <<active_connections, connection_users, user_connections,
                   transport, newest, presence, inbox, call,
                   docVars, rlVars, opVars>>

NextLoop ==
    \E c \in Conns, w \in Workspaces :
        \/ Connect(c, UserOf(c), w)
        \/ \E k \in {"ep", "off"} : BroadcastSend(<<k, c>>, w)
        \/ \E k \in {"ep", "off"} : BroadcastReturn(<<k, c>>, w)
        \/ StorePresence(c, w)
        \/ TransportCloses(c)
        \/ Disconnect(c, w)
        \/ \E frame \in Frames : FrameReceived(c, w, frame)
        \/ \E ok \in BOOLEAN : StoreOperation(c, ok)

InitSpecDoc == InitDoc /\ InitWS /\ InitRL /\ OneRL /\ InitOp /\ OneOp /\ InitSeq
InitSpecWS == InitDoc /\ OneDoc /\ InitWS /\ InitRL /\ OneRL /\ InitOp /\ OneOp /\ InitSeq
InitSpecRL == InitDoc /\ OneDoc /\ InitWS /\ InitRL /\ InitOp /\ OneOp /\ InitSeq
InitSpecOp == InitDoc /\ OneDoc /\ InitWS /\ InitRL /\ OneRL /\ InitOp /\ InitSeq
InitSpecSeq == InitDoc /\ InitConnected /\ InitRL /\ OneRL /\ InitOp /\ OneOp /\ InitSeq

InitSpecPresence ==
    InitDoc /\ OneDoc /\ InitObserved /\ InitRL /\ OneRL /\ InitOp /\ OneOp /\ InitSeq
SpecDoc == InitSpecDoc /\ [][NextDoc]_vars
SpecWS == InitSpecWS /\ [][NextWS]_vars
SpecPresence == InitSpecPresence /\ [][NextPresence]_vars
SpecRL == InitSpecRL /\ [][NextRL]_vars
SpecOp == InitSpecOp /\ [][NextOp]_vars
SpecSeq == InitSpecSeq /\ [][NextSeq]_vars
SpecLoop == InitSpecWS /\ [][NextLoop]_vars

(***************************************************************************)
(* The operation sequencer under concurrent requests                       *)
(***************************************************************************)
Rows == 1..Len(document_operations)

\* The orders in which the rows can be read by ascending operation_index.
IndexOrders ==
    {f \in [Rows -> Rows] :
        /\ \A i, j \in Rows : i # j => f[i] # f[j]
        /\ \A i, j \in Rows : i < j =>
              document_operations[f[i]].operation_index
                 <= document_operations[f[j]].operation_index}

RECURSIVE Replay(_, _, _)
Replay(content, f, i) ==
    IF i > Len(document_operations) THEN content
    ELSE Replay(ApplyOperation(content, document_operations[f[i]]), f, i + 1)

\* C1: replaying the stored operations in operation_index order from empty
\* content yields the stored content of the document (created empty), in
\* every interleaving of the requests.
C1_ReplayYieldsContent ==
    initial_content = <<>> =>
        \E f \in IndexOrders : Replay(<<>>, f, 1) = document.content

AllWritesSucceeded == \A r \in Reqs : req[r].pc # "failed"

\* C2: when every persistence write succeeded, the operation_index values of
\* the document are pairwise distinct and are exactly 0..n-1.
C2_IndexesDistinctContiguous ==
    AllWritesSucceeded =>
        /\ \A i, j \in Rows : i # j =>
              document_operations[i].operation_index
                 # document_operations[j].operation_index
        /\ {document_operations[i].operation_index : i \in Rows}
              = 0..(Len(document_operations) - 1)

Count(s, ch) == Cardinality({i \in 1..Len(s) : s[i] = ch})

RECURSIVE Inserted(_, _)
Inserted(ch, i) ==
    IF i > Len(document_operations) THEN 0
    ELSE Count(OrEmpty(document_operations[i].content), ch) + Inserted(ch, i + 1)

OnlyInserts == \A i \in Rows : document_operations[i].operation_type = "insert"

\* C3: no accepted edit is lost: when all accepted operations are inserts, the
\* stored content holds every inserted payload (each character as often as it
\* was inserted, beside the initial content).
C3_NoInsertLost ==
    OnlyInserts =>
        \A ch \in {"a", "b", "x"} :
            Count(document.content, ch) = Count(initial_content, ch) + Inserted(ch, 1)

\* C4: after n accepted operations the version is the initial version
\* (document.py 17: 1) plus n.
C4_VersionCountsOperations ==
    document.version = 1 + Len(document_operations)

(***************************************************************************)
(* The connection manager                                                  *)
(***************************************************************************)
\* C5: a broadcast in which exactly one send failed, on a group nobody else
\* changed during the call, returns normally and has delivered to every other
\* connection that was in the group.
C5_OneFailureIsIsolated ==
    (/\ last_broadcast.outcome # "none"
     /\ ~last_broadcast.changed
     /\ Len(last_broadcast.disconnected) = 1)
    => /\ last_broadcast.outcome = "done"
       /\ Range(last_broadcast.snapshot) \ Range(last_broadcast.disconnected)
             \subseteq last_broadcast.delivered

C5_Witness ==
    /\ last_broadcast.outcome = "done"
    /\ ~last_broadcast.changed
    /\ Len(last_broadcast.disconnected) = 1
    /\ last_broadcast.delivered # {}
    /\ Len(last_broadcast.snapshot) >= 2

\* C6: once a user has connected again, a signal routed to the user while the
\* websocket of the latest connect is open is sent on that websocket.
C6_SignalReachesNewest ==
    last_signal.expected # None =>
        /\ last_signal.result = "sent"
        /\ last_signal.conn = last_signal.expected

(***************************************************************************)
(* The admission limiter                                                   *)
(***************************************************************************)
Limited == response.status # 0 /\ response.path \notin HealthPaths

\* C7: the limiter never admits more requests on one key inside one window
\* than the limit; here, inside one second of the window.
C7_AdmittedWithinLimit ==
    (Limited /\ response.store_ok) => response.admitted_run <= response.limit

\* C8: a rejected request is not recorded in the key.
C8_RejectedNotRecorded ==
    (Limited /\ response.status = 429) => ~response.recorded

\* C9: a key that saw no request for a full window admits the next request,
\* whether or not it had reached its limit before.  Every counted request
\* writes its second into the key, so the key's members tell when the latest
\* one came; the witness is a key that was at its limit.
C9_AdmittedAfterQuietWindow ==
    (Limited /\ response.quiet) => response.status = 200

C9_Witness ==
    /\ Limited /\ response.store_ok
    /\ response.was_full /\ response.quiet
    /\ response.status = 200

\* C10: when the store call raises, the request is not limited and is
\* forwarded; no failure response is returned.
C10_FailsOpen ==
    (Limited /\ ~response.store_ok) => response.status = 200 /\ response.current = 0

C10_Witness ==
    /\ Limited /\ ~response.store_ok
    /\ response.was_full /\ ~response.quiet
    /\ response.status = 200

(***************************************************************************)
(* One operation applied to one content                                    *)
(***************************************************************************)
Applied(operation_type) ==
    output # None /\ input.op.operation_type = operation_type

Clamp(p, n) == Max(0, Min(p, n))

\* C11: an insert at any integer position yields content[:p] + payload +
\* content[p:] with p the position clamped to [0, len(content)].
C11_InsertClampsPosition ==
    Applied("insert") =>
        LET content == input.content
            p == Clamp(input.op.position, Len(content))
        IN  output[1] = SubSeq(content, 1, p) \o OrEmpty(input.op.content)
                           \o SubSeq(content, p + 1, Len(content))

\* C12: a delete with any integer position and length removes one contiguous
\* range of the content: the result is not longer than the content, at most
\* max(length, 0) characters are gone, and what remains keeps its order.
C12_DeleteRemovesOneRange ==
    Applied("delete") =>
        LET content == input.content
            n == Len(content)
        IN  /\ Len(output[1]) <= n
            /\ n - Len(output[1]) <= Max(OrZero(input.op.length), 0)
            /\ \E i \in 0..n : \E j \in i..n :
                  output[1] = SubSeq(content, 1, i) \o SubSeq(content, j + 1, n)

PastTheEnd ==
    /\ Applied("delete")
    /\ input.op.length # None
    /\ 0 <= input.op.position /\ input.op.position <= Len(input.content)
    /\ input.op.length[1] >= 0
    /\ input.op.position + input.op.length[1] > Len(input.content)

\* C13: a delete whose range runs past the end of the content removes exactly
\* the characters from position to the end.
C13_DeletePastEndTruncates ==
    PastTheEnd => output[1] = SubSeq(input.content, 1, input.op.position)

C13_Witness ==
    /\ PastTheEnd
    /\ input.op.position = 1
    /\ Len(input.content) = MaxLen
    /\ input.op.length[1] = MaxPos
    /\ output[1] = <<"x">>

(***************************************************************************)
(* The handlers, one request after another                                 *)
(***************************************************************************)
Answered(kind) == call.kind = kind /\ call.status # 404

\* C14: an operation a member submits is accepted whatever base version it
\* carries: unless the commit itself fails it is answered 200, its row is
\* stored with the next index and it is applied to the content.
C14_AnyBaseVersionAccepted ==
    (Answered("apply") /\ call.status # 500) =>
        /\ call.status = 200
        /\ document_operations =
              Append(call.before.rows,
                     OperationRow(call.op[1], NextOperationIndex(call.before.rows)))
        /\ document.content = ApplyOperation(call.before.content, call.op[1])

\* Two operations accepted in a row, the first with a base version ahead of
\* the document and the second with one behind it.
C14_Witness ==
    /\ Answered("apply") /\ call.status = 200
    /\ Len(document_operations) = 2
    /\ document_operations[1].document_version > 1
    /\ document_operations[2].document_version < 2
    /\ call.op[1].document_version < call.before.version

\* C15 as claimed: on a document created empty, after k operations accepted
\* one after another the version is k.
C15_VersionIsOperationCount ==
    (initial_content = <<>> /\ Answered("apply") /\ call.status = 200) =>
        document.version = Len(document_operations)

\* C15 as amended: a document is created with version 1 (document.py 17), so
\* after k operations accepted one after another the version is 1 + k.
C15_VersionIsOnePlusOperationCount ==
    (initial_content = <<>> /\ Answered("apply") /\ call.status = 200) =>
        /\ document.version = 1 + Len(document_operations)
        /\ document.version = call.before.version + 1

C15_Witness ==
    /\ initial_content = <<>>
    /\ Answered("apply") /\ call.status = 200
    /\ Len(document_operations) = 2
    /\ document.version = 3

Matching(since_version) ==
    {i \in 1..Len(document_operations) :
        document_operations[i].document_version > since_version}

\* C16: get_document_operations returns exactly the stored operations whose
\* document_version is above since_version, each once, by ascending
\* operation_index, and the version the document has.
C16_OperationsSinceVersion ==
    (Answered("get") /\ call.status = 200) =>
        /\ Range(call.operations) = {document_operations[i] : i \in Matching(call.since)}
        /\ Len(call.operations) = Cardinality(Matching(call.since))
        /\ \A i, j \in 1..Len(call.operations) : i < j =>
              call.operations[i].operation_index < call.operations[j].operation_index
        /\ call.current_version = document.version

C16_Witness ==
    /\ Answered("get") /\ call.status = 200
    /\ Len(document_operations) = 2
    /\ Len(call.operations) = 1
    /\ call.operations[1] = document_operations[2]
    /\ call.since = 1

\* The content a document created with version 1 had at version v, when the
\* operations were accepted one after another.
RECURSIVE ApplyAll(_, _)
ApplyAll(content, operations) ==
    IF operations = <<>> THEN content
    ELSE ApplyAll(ApplyOperation(content, Head(operations)), Tail(operations))

ContentAt(v) == ApplyAll(initial_content, SubSeq(document_operations, 1, v - 1))
AcceptedAfter(v) == SubSeq(document_operations, v, Len(document_operations))

\* Every operation carried the version the document had when it was accepted.
BasesAreCurrent == \A i \in 1..Len(document_operations) :
                       document_operations[i].document_version = i

\* C17: for a client that holds the content of version v, the operations
\* get_document_operations(since_version = v) returns are the operations
\* accepted after version v, and applying them in order to the client's
\* content yields the document's content.  Stated for submitters that send
\* the current version as their base.
C17_ResyncCatchesUp ==
    (/\ Answered("get") /\ call.status = 200
     /\ BasesAreCurrent
     /\ 1 <= call.since /\ call.since <= document.version)
    => /\ call.operations = AcceptedAfter(call.since)
       /\ ApplyAll(ContentAt(call.since), call.operations) = document.content

\* C18: the message of an accepted operation carries the index given to the
\* operation and the new version of the document, and every connection of
\* the group, the author's too, receives it.
C18_MessageCarriesIndexAndNewVersion ==
    (Answered("apply") /\ call.status = 200) =>
        /\ call.message[1].operation_index
              = document_operations[Len(document_operations)].operation_index
        /\ call.message[1].document_version = document.version
        /\ call.delivered = Range(call.group)

\* The operation of a delivered message is a row of the operation log.
Persisted ==
    \E i \in 1..Len(document_operations) :
        LET row == document_operations[i]
            message == call.message[1]
        IN  /\ row.position = message.position
            /\ row.content = message.content
            /\ row.operation_type = IF call.kind = "frame" THEN message.operation
                                    ELSE message.operation_type
            /\ call.kind = "apply" => row.operation_index = message.operation_index

\* C19: a document_operation message reaches a connection only when its
\* operation is stored in the operation log, whether it came through
\* apply_document_operation or as a frame on a websocket.
C19_DeliveredOnlyIfPersisted ==
    (call.kind \in {"apply", "frame"} /\ call.message # None /\ call.delivered # {})
    => Persisted

\* C20: when the commit fails nothing of the operation is stored, the index
\* it had computed is the one the next operation gets, and the indexes stored
\* stay 0..n-1.
C20_FailedCommitLeavesNoTrace ==
    (Answered("apply") /\ call.status = 500) =>
        /\ document_operations = call.before.rows
        /\ document.content = call.before.content
        /\ document.version = call.before.version
        /\ NextOperationIndex(document_operations) = call.operation_index
        /\ \A i \in 1..Len(document_operations) :
              document_operations[i].operation_index = i - 1

C20_Witness ==
    /\ Answered("apply") /\ call.status = 500
    /\ Len(document_operations) = 1
    /\ call.operation_index = 1

\* C21: a connection that was in the group when a broadcast started, is still
\* in it when the broadcast has returned and whose transport is open received
\* the message exactly once during the call, whoever else joined or left.
\* (A websocket never registers twice, so being a member at both ends means
\* having stayed one.)
StayedRegistered(w) ==
    Range(last_broadcast.snapshot) \cap Range(active_connections[w])

C21_SnapshotDelivery ==
    last_broadcast.outcome # "none"
    => \A w \in Workspaces : \A c \in StayedRegistered(w) :
          transport[c] = "open" => Count(last_broadcast.sent, c) = 1

\* C22: no broadcast ends in an exception: its clean-up finds every connection
\* whose send failed, or passes over the ones that have left the group since.
C22_BroadcastNeverRaises ==
    last_broadcast.outcome # "raised"

\* C23: when a broadcast has returned, every connection one of its sends
\* failed on is fully removed: it is in no group list, has no user in
\* connection_users, is no user's binding in user_connections, and, unless its
\* user is bound to another websocket, the offline announcement for the user
\* has been started.
OfflineAnnounced(c) ==
    /\ Running(<<"off", c>>)
    /\ task[<<"off", c>>].bc[1].message = Presence(task[<<"ep", c>>].user, "offline")

BoundElsewhere(c) ==
    LET binding == user_connections[task[<<"ep", c>>].user]
    IN  binding # None /\ binding # Some(c)

C23_FailedSendRemovesFully ==
    last_broadcast.outcome = "done"
    => \A c \in Range(last_broadcast.disconnected) :
          /\ \A w \in Workspaces : c \notin Range(active_connections[w])
          /\ connection_users[c] = NoUser
          /\ \A u \in Users : user_connections[u] # Some(c)
          /\ BoundElsewhere(c) \/ OfflineAnnounced(c)

\* C24: a disconnect of a websocket that is not its user's current binding
\* (the user has connected again since) leaves user_connections as it is and
\* starts no offline announcement; only the disconnect of the bound websocket
\* clears the binding and announces.
IsPrimary(c) == user_connections[task[<<"ep", c>>].user] = Some(c)

C24_OnlyPrimaryDisconnectUnbinds ==
    [][\A c \in Conns, w \in Workspaces :
          (Disconnect(c, w) /\ ~IsPrimary(c))
          => /\ user_connections' = user_connections
             /\ task'[<<"off", c>>].bc = None]_vars

\* C25: disconnect of a websocket whose endpoint has already run disconnect
\* changes none of the three registries and creates no announcement task.
Disconnected(c) == task[<<"ep", c>>].pc = "closed"

C25_DisconnectIdempotent ==
    \A c \in Conns, w \in Workspaces :
        Disconnected(c)
        => disconnect(c, w) =
              [active_connections |-> active_connections,
               connection_users |-> connection_users,
               user_connections |-> user_connections,
               created_task |-> None]

C25_Witness ==
    \E c \in Conns :
        /\ Disconnected(c)
        /\ \E d \in Conns : d # c /\ connection_users[d] # NoUser
        /\ \E u \in Users : user_connections[u] # None

\* C26: a user whose endpoint has run disconnect and who has no websocket left
\* in the group is reported offline, and not online, by get_workspace_presence.
Registered(u, w) ==
    \E c \in Range(active_connections[w]) : task[<<"ep", c>>].user = u

Left(u) == \E c \in Conns : Disconnected(c) /\ task[<<"ep", c>>].user = u

C26_RemovedUserReportedOffline ==
    \A w \in Workspaces, u \in Users :
        (Left(u) /\ ~Registered(u, w))
        => /\ [user_id |-> u, status |-> "offline"] \in get_workspace_presence(w)
           /\ [user_id |-> u, status |-> "online"] \notin get_workspace_presence(w)

\* C27: while a user has an open websocket registered in the group and no
\* presence broadcast about the user is under way, the last presence message
\* about the user that every other member's websocket was sent says "online".
HasLiveConnection(u, w) ==
    \E c \in Range(active_connections[w]) :
        connection_users[c] = u /\ transport[c] = "open"

AnnouncementPending(u) ==
    \E t \in DOMAIN task : Running(t) /\ task[t].bc[1].message.user_id = u

OtherMember(m, u, w) ==
    /\ m \in Range(active_connections[w])
    /\ connection_users[m] \notin {u, NoUser}
    /\ transport[m] = "open"

C27_LastPresenceIsOnline ==
    \A w \in Workspaces, u \in Users, m \in DOMAIN inbox :
        (/\ HasLiveConnection(u, w)
         /\ ~AnnouncementPending(u)
         /\ OtherMember(m, u, w)
         /\ inbox[m][u] # "none")
        => inbox[m][u] = "online"

\* C28: send_to_user always returns: True ("sent") only for a user who had a
\* binding and whose send succeeded, False without touching the registries for
\* a user without a binding ("dropped"), and False with the user's binding
\* removed when the send failed ("failed").
Registries == <<active_connections, connection_users, user_connections>>

C28_SendToUserReturnsBoolean ==
    /\ [](last_signal.result # "none"
          => /\ last_signal.result \in {"sent", "dropped", "failed"}
             /\ last_signal.result = "dropped" <=> last_signal.conn = None
             /\ last_signal.result = "sent"
                   => transport[last_signal.conn[1]] = "open"
             /\ last_signal.result = "failed"
                   => user_connections[last_signal.target] = None)
    /\ [][\A c \in Conns, target \in Users :
            (SignalReceived(c, target) /\ user_connections[target] = None)
            => /\ last_signal'.result = "dropped"
               /\ Registries' = Registries]_vars

\* C29: a webrtc_signal for a user who has a binding starts exactly one send,
\* on the websocket user_connections holds for the user, and a send that has
\* gone out went out on a websocket of that user; for a user without a binding
\* nothing is sent, the registries stay as they are and the sender's endpoint
\* goes on reading.
SignalDropped(c, target) ==
    /\ last_signal'.result = "dropped"
    /\ Registries' = Registries
    /\ task' = task

SignalStarted(c, target) ==
    /\ task'[<<"ep", c>>].pc = "signal_send"
    /\ task'[<<"ep", c>>].sig # None
    /\ task'[<<"ep", c>>].sig[1].target = target
    /\ task'[<<"ep", c>>].sig[1].conn = user_connections[target]
    /\ \A t \in DOMAIN task : t # <<"ep", c>> => task'[t] = task[t]
    /\ Registries' = Registries

C29_SignalOnPrimaryOnly ==
    /\ [](last_signal.result = "sent"
          => task[<<"ep", last_signal.conn[1]>>].user = last_signal.target)
    /\ [][\A c \in Conns, target \in Users :
            SignalReceived(c, target)
            => IF user_connections[target] = None
               THEN SignalDropped(c, target)
               ELSE SignalStarted(c, target)]_vars

C29_Witness ==
    /\ last_signal.result = "sent"
    /\ last_signal.conn = user_connections[last_signal.target]
    /\ \E c \in Range(active_connections["w1"]) :
          /\ Some(c) # last_signal.conn
          /\ connection_users[c] = last_signal.target
          /\ transport[c] = "open"

\* C30: handle_message of a frame whose type is none of chat_message, typing,
\* document_operation, webrtc_signal, cursor_position, or that has no type,
\* sends nothing, changes no registry and no store, and returns normally.
KnownTypes ==
    {Some("chat_message"), Some("typing"), Some("document_operation"),
     Some("webrtc_signal"), Some("cursor_position")}

C30_UnknownFrameIgnored ==
    [][\A w \in Workspaces, c \in Conns, frame \in Frames :
          \A message_type \in MessageTypes \ KnownTypes :
              handle_message(w, c, message_type, frame)
              => /\ call'.kind = "ignored"
                 /\ call'.status = 200
                 /\ call'.delivered = {}
                 /\ call'.message = None
                 /\ UNCHANGED <<wsVars, docVars, doc_operations>>]_vars

C30_Witness ==
    /\ call.kind = "ignored"
    /\ Len(active_connections["w1"]) >= 2
    /\ doc_operations # <<>>

\* C31: every websocket in a registry was connected for a user who has an
\* account and is bound to that user; an attempt that was closed (no token, a
\* token that does not verify, no account) has a close reason, is in no
\* registry and has started no presence broadcast.
InRegistry(c) ==
    \/ \E w \in Workspaces : c \in Range(active_connections[w])
    \/ connection_users[c] # NoUser
    \/ \E u \in DOMAIN user_connections : user_connections[u] = Some(c)

Rejected(c) == task[<<"ep", c>>].pc = "rejected"

C31_OnlyVerifiedUsersRegistered ==
    \A c \in Conns :
        /\ InRegistry(c)
           => /\ ~Rejected(c)
              /\ UserFound(task[<<"ep", c>>].user)
              /\ \A w \in Workspaces :
                    c \in Range(active_connections[w])
                    => connection_users[c] = task[<<"ep", c>>].user
        /\ Rejected(c)
           => /\ ~InRegistry(c)
              /\ transport[c] = "closed"
              /\ task[<<"ep", c>>].code = 1008
              /\ task[<<"ep", c>>].reason
                    \in {"No token provided", "Invalid token", "User not found"}
              /\ ~Running(<<"ep", c>>) /\ ~Running(<<"off", c>>)

C31_Witness ==
    /\ \E c \in Conns : Rejected(c) /\ task[<<"ep", c>>].reason = "User not found"
    /\ \E c \in Conns : InRegistry(c) /\ task[<<"ep", c>>].pc = "reading"

\* C32: requests of the one client to paths of one resource class share a
\* counter: a request is admitted only while every other path of its class
\* holds fewer requests of the current window than the class limit.
RuleNameOf(path) ==
    IF \E i \in 1..Len(RuleNames) : StartsWith(path, RuleNames[i])
    THEN RuleNames[CHOOSE i \in 1..Len(RuleNames) :
            /\ StartsWith(path, RuleNames[i])
            /\ \A j \in 1..(i - 1) : ~StartsWith(path, RuleNames[j])]
    ELSE "default"

C32_ClassSharesOneCounter ==
    (Limited /\ response.store_ok /\ response.status = 200)
    => \A q \in (Paths \ HealthPaths) \ {response.path} :
          RuleNameOf(q) = RuleNameOf(response.path)
          => Cardinality({t \in zsets[get_rate_limit_key(q)] :
                             t > now - response.window})
                < response.limit

\* C33: a rejected request is answered 429 without the handler being called,
\* and the answer carries the limit and the window of the rule of its path and
\* the number of requests the key held in the window when the request came.
C33_RejectionCarriesLimitWindowCount ==
    (Limited /\ response.status = 429)
    => /\ ~response.forwarded
       /\ response.limit = get_rate_limit_rule(response.path)[1]
       /\ response.window = get_rate_limit_rule(response.path)[2]
       /\ response.current =
             Cardinality(zsets[get_rate_limit_key(response.path)])
             - (IF response.recorded THEN 1 ELSE 0)
       /\ response.current >= response.limit

C33_Witness ==
    /\ Limited /\ response.status = 429
    /\ response.current > response.limit
    /\ response.path = "/api/documents/d2"
    /\ rules["/api/documents/"] # rules["default"]

\* C34: the stored content of a document changes only in a step that appends
\* one operation record and adds one to the version.
C34_ContentChangesOnlyByOperations ==
    [][document'.content # document.content
       => /\ Len(document_operations') = Len(document_operations) + 1
          /\ document'.version = document.version + 1]_vars

\* C35: of two accepted operations on the document, a connection of the
\* group that receives both broadcasts receives the one with the smaller
\* operation_index first.
C35_BroadcastsInIndexOrder ==
    \A r, q \in Broadcasts :
        req[r].position < req[q].position
        => req[r].operation_index < req[q].operation_index

\* The connection the step's send of broadcast task t goes to, if the step is
\* one send of its loop.
BroadcastSendsOn(t, c) ==
    /\ task[t].bc # None /\ task'[t].bc # None
    /\ LET b == task[t].bc[1]
           after == task'[t].bc[1]
       IN  /\ after.i = b.i + 1
           /\ \/ /\ Len(after.sent) > Len(b.sent)
                 /\ after.sent[Len(after.sent)] = c
              \/ /\ Len(after.disconnected) > Len(b.disconnected)
                 /\ after.disconnected[Len(after.disconnected)] = c

\* The step is the lookup of send_to_user and its send starts on c.
SendToUserStartsOn(t, c) ==
    /\ task[t].sig = None /\ task'[t].sig # None
    /\ task'[t].sig[1].conn = Some(c)

\* C36: once disconnect(connection) has returned, no broadcast, one that was
\* in its loop included, and no send_to_user starts a send on the connection.
C36_NoSendAfterDisconnect ==
    [][\A c \in Conns :
          Disconnected(c)
          => \A t \in Tasks : ~BroadcastSendsOn(t, c) /\ ~SendToUserStartsOn(t, c)]_vars

\* A signal for the user of a disconnected websocket was looked up and dropped.
C36_Witness ==
    /\ last_signal.result = "dropped"
    /\ \E c \in Conns : Disconnected(c) /\ task[<<"ep", c>>].user = last_signal.target

\* C37: a connection whose read loop has ended, by a transport close or by
\* an exception raised while one of its frames was handled, is in no group's
\* list and in neither user binding.  The loop has ended when receive_json
\* raised WebSocketDisconnect and disconnect returned, or when the handler of
\* a frame raised.
C37_EndedLoopIsUnregistered ==
    \A c \in Conns :
        (\/ Disconnected(c)
         \/ /\ task[<<"ep", c>>].pc = "crashed"
            /\ "message" \in DOMAIN task[<<"ep", c>>])
        => ~InRegistry(c)

\* C38: whenever user_connections maps a user to a connection,
\* connection_users maps that connection to the user and the connection is in
\* the list of some group.
C38_PrimaryBindingIsRegistered ==
    \A u \in Users, c \in Conns :
        user_connections[u] = Some(c)
        => /\ connection_users[c] = u
           /\ \E w \in Workspaces : c \in Range(active_connections[w])

\* C39: a send_to_user whose send fails never removes a binding of the target
\* to another connection than the one it sent on, and it does not raise when
\* the binding is gone by the time the send fails.
C39_SendToUserSafeAgainstRebinding ==
    [][\A c \in Conns :
          SignalSent(c)
          => /\ last_signal'.result # "raised"
             /\ user_connections[task[<<"ep", c>>].sig[1].target]
                   # task[<<"ep", c>>].sig[1].conn
                => user_connections' = user_connections]_vars

\* C40: an operation whose operation_type is neither insert nor delete is
\* accepted: it gets the next operation_index, its row is stored, its message
\* is broadcast and the version grows by one, and the content of the document
\* stays as it was.  Stated for an operation a member submitted and whose
\* commit did not fail.
C40_OtherTypeAcceptedContentKept ==
    (/\ Answered("apply") /\ call.status # 500
     /\ call.op # None => call.op[1].operation_type \notin {"insert", "delete"})
    => /\ call.status = 200 /\ call.op # None
       /\ call.operation_index = NextOperationIndex(call.before.rows)
       /\ document_operations =
             Append(call.before.rows, OperationRow(call.op[1], call.operation_index))
       /\ call.message =
             Some(OperationMessage(call.op[1], call.operation_index, CurrentUser))
       /\ document.version = call.before.version + 1
       /\ document.content = call.before.content

\* A format operation accepted on a document that has content and an earlier
\* operation.
C40_Witness ==
    /\ Answered("apply") /\ call.status = 200
    /\ call.op[1].operation_type = "format"
    /\ call.before.content # <<>>
    /\ call.before.rows # <<>>

====
